---- MODULE Spec2Model ----
(***************************************************************************)
(* Model of the chunked video assembly of this repository:                 *)
(*   chunk_builder.py  - the script that splits lines.json into chunks,    *)
(*                       slices the audio, renders each chunk with         *)
(*                       build_video, unifies sizes and joins the parts;   *)
(*   subtitle_video.py - build_video, the per-chunk compositor.            *)
(*                                                                         *)
(* Durations are seconds in the code (JSON numbers, Python floats).  The   *)
(* model counts them in milliseconds, as exact integers: 1.0 s is 1000,    *)
(* 0.8 s is 800.  Floating-point rounding is not modelled.                 *)
(*                                                                         *)
(* Python sequences are 0-based; the TLA+ sequences that hold them are     *)
(* 1-based, so Python's s[j] is s[j + 1] here.                             *)
(***************************************************************************)
EXTENDS Integers, Sequences, FiniteSets, TLC

(***************************************************************************)
(* Bounds of the model.                                                    *)
(***************************************************************************)
MaxLines == 3        \* longest enumerated lines.json
MaxChunk == 2        \* largest enumerated --chunk

(***************************************************************************)
(* Program constants.                                                      *)
(***************************************************************************)
DefaultDurMs == 1000  \* build_video: dur = 1.0 when the record has no entry[3]
MinClipDurMs == 800   \* build_video: dur = 0.8 when dur <= 0
ExitSuccess  == 0     \* the script runs to its end
ExitFailure  == 1     \* SystemExit(<message>) and every uncaught exception
Running      == -1    \* no exit code yet

\* subtitle_video.py layout constants
SCREEN_H      == 1920
POS_Y         == 920
LINE_GAP      == 28
BOTTOM_MARGIN == 40
PAD_Y         == 16
FONT_SIZE_TOP == 50
FONT_SIZE_BOT == 45
MIN_FONT_SIZE == 28

\* the "small epsilon (e.g. 1 ms)" of the specification; the code has none
EpsilonMs == 1

(***************************************************************************)
(* Inputs.                                                                 *)
(***************************************************************************)
\* durations (ms) a line record may carry; lines.json is an input file, so
\* zero and negative numbers are possible contents
Durs == {-500, 0, 1000, 1500}

\* --rows
RowChoices == {1, 2}

\* --chunk (argparse type=int: any integer is accepted)
ChunkChoices == (-1) .. MaxChunk

\* one record of lines.json as main.py writes it for len(subs) = rows:
\* ["N", sub_rows[0][i], ..., sub_rows[rows-1][i], dur]
LineRecord(rows, d) ==
  <<"N", "a">> \o (IF rows >= 2 THEN <<"b">> ELSE <<>>) \o <<d>>

RECURSIVE RecordsOf(_, _)
RecordsOf(rows, ds) ==
  IF ds = <<>> THEN <<>>
  ELSE <<LineRecord(rows, Head(ds))>> \o RecordsOf(rows, Tail(ds))

\* scenario A of the specification: 5 lines, 2.0 1.5 3.0 0.5 2.0 seconds
ExampleDurs == <<2000, 1500, 3000, 500, 2000>>

DurSeqs == UNION {[1 .. n -> Durs] : n \in 0 .. MaxLines} \cup {ExampleDurs}

InputLines(rows) == {RecordsOf(rows, ds) : ds \in DurSeqs}

(***************************************************************************)
(* Python helpers.                                                         *)
(***************************************************************************)
Min(a, b) == IF a <= b THEN a ELSE b

\* s[a:b] for 0 <= a <= b
PySlice(s, a, b) == SubSeq(s, a + 1, Min(b, Len(s)))

\* len(range(0, n, step)) for n >= 0 and step # 0
RangeLen(n, step) == IF step > 0 THEN (n + step - 1) \div step ELSE 0

RECURSIVE SumSeq(_)
SumSeq(s) == IF s = <<>> THEN 0 ELSE Head(s) + SumSeq(Tail(s))

(***************************************************************************)
(* chunk_builder.py: partition and timeline.                               *)
(***************************************************************************)
\* mutant of Parts: the trailing group of fewer than LINES_PER lines is lost
PartsNoTail(ls, per) ==
  [k \in 1 .. (IF per > 0 THEN Len(ls) \div per ELSE 0) |->
     PySlice(ls, (k - 1) * per, (k - 1) * per + per)]

\* parts = [lines[i:i+LINES_PER] for i in range(0, len(lines), LINES_PER)]
Parts(ls, per) ==
  [k \in 1 .. RangeLen(Len(ls), per) |->
     PySlice(ls, (k - 1) * per, (k - 1) * per + per)]

\* row[-1]
RowDur(row) == row[Len(row)]

\* durations = [row[-1] for row in lines]
Durations(ls) == [i \in 1 .. Len(ls) |-> RowDur(ls[i])]

\* cumulative = [0]; for d in durations: cumulative.append(cumulative[-1] + d)
RECURSIVE CumulativeLoop(_, _)
CumulativeLoop(cum, ds) ==
  IF ds = <<>> THEN cum
  ELSE CumulativeLoop(Append(cum, cum[Len(cum)] + Head(ds)), Tail(ds))

\* mutant of Cumulative: appends d instead of cumulative[-1] + d
CumulativeNoCarry(ls) == <<0>> \o Durations(ls)

Cumulative(ls) == CumulativeLoop(<<0>>, Durations(ls))

\* mutant of TStart: cumulative[idx]
TStartNoStride(cum, per, i) == cum[i + 1]

\* t_start = cumulative[idx * LINES_PER]
TStart(cum, per, i) == cum[i * per + 1]

\* mutant of TEnd: cumulative[idx * LINES_PER + 1]
TEndOneLine(cum, per, i, chunk) == cum[i * per + 2]

\* t_end = cumulative[idx * LINES_PER + len(chunk)]
TEnd(cum, per, i, chunk) == cum[i * per + Len(chunk) + 1]

(***************************************************************************)
(* The call build_video(lines=..., ..., rows=ROWS, **base_kwargs).         *)
(***************************************************************************)
\* the parameters of def build_video(...)
build_video_params ==
  {"lines", "bg_path", "voice_mp3", "out_mp4", "rows",
   "fsize_top", "fsize_bot", "hide_n_label", "monologue_center"}

\* the keys chunk_builder always puts into base_kwargs
base_kwargs_keys ==
  {"canvas_size", "bg_fit", "hide_n_label", "monologue_center"}

\* the keyword arguments of the call in the chunk loop
call_keywords ==
  {"lines", "bg_path", "voice_mp3", "out_mp4", "rows"} \cup base_kwargs_keys

\* Python binds a call only if every keyword names a parameter (the function
\* has no **kwargs); otherwise the call raises TypeError before the body runs
CallBinds == call_keywords \subseteq build_video_params

\* how the call in the chunk loop can end
RenderOutcomes == IF CallBinds THEN {"ok", "raise"} ELSE {"TypeError"}

(***************************************************************************)
(* External tools.                                                         *)
(***************************************************************************)
\* subprocess.run(..., check=True), called without timeout=: the tool exits
\* 0, or exits non-zero and CalledProcessError is raised, or never exits and
\* the call never returns
ToolOutcomes == {"ok", "nonzero", "hang"}

\* the exit status Python gives the script: 0 at the end of the script, 1
\* for SystemExit(<message>) and for every uncaught exception
ExitCodeOf(err) == IF err = "none" THEN ExitSuccess ELSE ExitFailure

\* what the output path holds after "ffmpeg -y ... FINAL_MP4": a successful
\* join writes the complete file; a failing one may have opened and partly
\* written the file before it failed, or may have failed before that
OutputAfter(o, cur) == IF o = "ok" THEN {"complete"} ELSE {cur, "partial"}

\* _ffprobe_size(p) against TARGET_WH: the same size, another size, or
\* (None, None)
ProbeResults == {"match", "differ", "none"}

\* mutant of NeedsUnifySize: True only if every file mismatches
NeedsUnifySizeAll(probes) == \A i \in 1 .. Len(probes) : probes[i] # "match"

\* _needs_unify_size(parts, target_wh)
NeedsUnifySize(probes) == \E i \in 1 .. Len(probes) : probes[i] # "match"

\* TEMP / f"part_{idx:02d}.mp4" and src.with_name(src.stem + "_fix.mp4")
PartFile(i) == [kind |-> "part", idx |-> i]
FixFile(src) == [kind |-> "fix", idx |-> src.idx]

VARIABLES
  \* command line and input files
  lines_json,      \* content of SCRIPT (lines.json)
  LINES_PER,       \* args.chunk
  ROWS,            \* args.rows
  size_ok,         \* --size matches (\d+)[xX](\d+)
  files_ok,        \* SCRIPT, FULL_MP3 and BG_PNG exist
  force_reencode,  \* args.force_reencode
  \* the run of chunk_builder.py
  pc,              \* position in the script
  TEMP,            \* TRUE while the mkdtemp directory exists
  lines,           \* json.loads(SCRIPT.read_text())
  parts,
  cumulative,
  idx,             \* index of the chunk loop
  slices,          \* the audio-slice ffmpeg invocations, in order
  renders,         \* the chunk indexes build_video was called for, in order
  part_files,
  need_unify,
  unify_calls,     \* the files _unify_size was called for, in order
  concat_txt,      \* the files listed in concat.txt
  fast_join,       \* "none", or the outcome of the -c copy join
  reenc_join,      \* "none", or the outcome of the libx264 join
  FINAL_MP4,       \* what the output path holds
  exit_code,
  error,           \* "none", or the exception that ended the script
  part_sizes,      \* what _ffprobe_size reports for each file of part_files
  \* one direct call build_video(lines=chunk, ..., rows=ROWS)
  bv_pc,
  bv_lines,        \* the lines argument
  bv_i,            \* position of the for-loop over lines (1-based)
  bv_read,         \* the dur each entry gave, before the dur <= 0 rule
  clips,           \* the duration of each composed clip
  video_dur,       \* duration of the concatenated video, -1 before it exists
  fsize_top,       \* the fsize_top argument, 0 when not given (None)
  fsize_bot,       \* the fsize_bot argument, 0 when not given (None)
  fs_top,          \* font sizes the latest clip was laid out with
  fs_bot,
  elem,            \* vertical position and height of the latest clip's
                   \* caption elements, as composed
  overflow2,       \* overflow2 of the latest clip
  \* the caption texts build_video makes for one entry
  cap_pc,
  speaker,         \* entry[0]
  hide_n_label,    \* the hide_n_label argument
  installed,       \* the font files that exist (os.path.isfile)
  top_wrap,        \* the lines textwrap gives sanitize(line1)
  bot_wrap,        \* the lines textwrap gives sanitize(line2)
  top_body,        \* texts are sequences of lines, lines sequences of
  bot_body,        \* characters
  top_txt,
  top_fonts,       \* what pick_font(top_body) returned, call by call
  bot_fonts,       \* what pick_font(bot_body) returned, call by call
  \* one call of _concat_with_gaps
  gp_pc,
  audio_paths,     \* the true length of each utterance file, in ticks
  gap_ms,
  pre_ms,
  min_ms,
  combined,        \* true length of combined, in ticks
  durs,            \* in milliseconds
  starts,          \* where each utterance begins in combined, in ticks
  \* one call of make_dialogue
  dlg_pc,
  mode,
  turns,
  raw_lines,       \* the non-blank lines of the model response, stripped
  dlg_i,           \* position of the loop over raw_lines (1-based)
  result,
  dlg_ret,         \* what make_dialogue returned
  \* one call of _gen_example_sentence
  gen_pc,
  lang_code,
  attempts,          \* the candidate of each model call, in order
  gen_ret,           \* what _gen_example_sentence returned
  example_attempts,  \* FALLBACK_STATS["example_attempts"]
  example_fallbacks, \* FALLBACK_STATS["example_fallbacks"]
  \* the lines run_one assembles
  r1_pc,
  VOCAB_ROUNDS,
  VOCAB_WORDS,
  CONVO_LINES,
  round_idx,
  speak_calls,     \* the speaker argument of each speak() call, in order
  lines_data,      \* the speaker tag of each record of lines.json
  \* one call of _try_upload_with_fallbacks
  up_pc,
  account,         \* the primary account
  fallbacks,       \* the entries of UPLOAD_FALLBACKS, in order
  tried,
  up_errs,         \* the outcome of each upload() call, in order
  up_ret           \* "none", "True", "False", "SystemExit" or "raise"

cfgvars == <<lines_json, LINES_PER, ROWS, size_ok, files_ok, force_reencode>>
runvars == <<pc, TEMP, lines, parts, cumulative, idx, slices, renders,
             part_files, need_unify, unify_calls, concat_txt, fast_join,
             reenc_join, FINAL_MP4, exit_code, error, part_sizes>>
bvvars  == <<bv_pc, bv_lines, bv_i, bv_read, clips, video_dur,
             fsize_top, fsize_bot, fs_top, fs_bot, elem, overflow2>>
capvars == <<cap_pc, speaker, hide_n_label, installed, top_wrap, bot_wrap,
             top_body, bot_body, top_txt, top_fonts, bot_fonts>>
gapvars == <<gp_pc, audio_paths, gap_ms, pre_ms, min_ms, combined, durs,
             starts>>
dlgvars == <<dlg_pc, mode, turns, raw_lines, dlg_i, result, dlg_ret>>
genvars == <<gen_pc, lang_code, attempts, gen_ret, example_attempts, example_fallbacks>>
r1vars == <<r1_pc, VOCAB_ROUNDS, VOCAB_WORDS, CONVO_LINES, round_idx, speak_calls, lines_data>>
upvars == <<up_pc, account, fallbacks, tried, up_errs, up_ret>>
libvars == <<capvars, gapvars, dlgvars, genvars, r1vars, upvars>>
vars    == <<cfgvars, runvars, bvvars, libvars>>

\* what the steps of one module leave alone
capothers == <<cfgvars, runvars, bvvars, gapvars, dlgvars, genvars, r1vars, upvars>>
gapothers == <<cfgvars, runvars, bvvars, capvars, dlgvars, genvars, r1vars, upvars>>
dlgothers == <<cfgvars, runvars, bvvars, capvars, gapvars, genvars, r1vars, upvars>>
genothers == <<cfgvars, runvars, bvvars, capvars, gapvars, dlgvars, r1vars, upvars>>
r1others == <<cfgvars, runvars, bvvars, capvars, gapvars, dlgvars, genvars, upvars>>
upothers == <<cfgvars, runvars, bvvars, capvars, gapvars, dlgvars, genvars, r1vars>>

(***************************************************************************)
(* The run of chunk_builder.py.                                            *)
(***************************************************************************)
BvIdle ==
  /\ bv_pc = "idle"
  /\ bv_lines = <<>>
  /\ bv_i = 1
  /\ bv_read = <<>>
  /\ clips = <<>>
  /\ video_dur = -1
  /\ fsize_top = 0
  /\ fsize_bot = 0
  /\ fs_top = 0
  /\ fs_bot = 0
  /\ elem = <<>>
  /\ overflow2 = 0

CapIdle ==
  /\ cap_pc = "idle"
  /\ speaker = "N"
  /\ hide_n_label = FALSE
  /\ installed = {}
  /\ top_wrap = <<>>
  /\ bot_wrap = <<>>
  /\ top_body = <<>>
  /\ bot_body = <<>>
  /\ top_txt = <<>>
  /\ top_fonts = <<>>
  /\ bot_fonts = <<>>

GapIdle ==
  /\ gp_pc = "idle"
  /\ audio_paths = <<>>
  /\ gap_ms = 0
  /\ pre_ms = 0
  /\ min_ms = 0
  /\ combined = 0
  /\ durs = <<>>
  /\ starts = <<>>

DlgIdle ==
  /\ dlg_pc = "idle"
  /\ mode = "dialogue"
  /\ turns = 1
  /\ raw_lines = <<>>
  /\ dlg_i = 1
  /\ result = <<>>
  /\ dlg_ret = <<>>

GenIdle ==
  /\ gen_pc = "idle"
  /\ lang_code = "en"
  /\ attempts = <<>>
  /\ gen_ret = [kind |-> "none"]
  /\ example_attempts = 0
  /\ example_fallbacks = 0

R1Idle ==
  /\ r1_pc = "idle"
  /\ VOCAB_ROUNDS = 0
  /\ VOCAB_WORDS = 0
  /\ CONVO_LINES = 0
  /\ round_idx = 1
  /\ speak_calls = <<>>
  /\ lines_data = <<>>

UpIdle ==
  /\ up_pc = "idle"
  /\ account = "a"
  /\ fallbacks = <<>>
  /\ tried = <<>>
  /\ up_errs = <<>>
  /\ up_ret = "none"

\* no other module is in use
LibIdle == CapIdle /\ GapIdle /\ DlgIdle /\ GenIdle /\ R1Idle /\ UpIdle

Init ==
  /\ LibIdle
  /\ ROWS \in RowChoices
  /\ lines_json \in InputLines(ROWS)
  /\ LINES_PER \in ChunkChoices
  /\ size_ok \in BOOLEAN
  /\ files_ok \in BOOLEAN
  /\ force_reencode \in BOOLEAN
  /\ pc = "start"
  /\ TEMP = FALSE
  /\ lines = <<>>
  /\ parts = <<>>
  /\ cumulative = <<>>
  /\ idx = 0
  /\ slices = <<>>
  /\ renders = <<>>
  /\ part_files = <<>>
  /\ need_unify = FALSE
  /\ unify_calls = <<>>
  /\ concat_txt = <<>>
  /\ fast_join = "none"
  /\ reenc_join = "none"
  /\ FINAL_MP4 = "absent"
  /\ exit_code = Running
  /\ error = "none"
  /\ part_sizes = <<>>
  /\ BvIdle
  /\ UpIdle
  /\ R1Idle
  /\ GenIdle
  /\ DlgIdle

\* the script ends with an uncaught exception or SystemExit(<message>)
Abort(err) ==
  /\ pc' = "exited"
  /\ error' = err
  /\ exit_code' = ExitCodeOf(err)

\* argument parsing, _parse_size, the input file check, makedirs, mkdtemp
Start ==
  /\ pc = "start"
  /\ IF ~size_ok \/ ~files_ok
       THEN Abort("SystemExit") /\ TEMP' = TEMP
       ELSE /\ TEMP' = TRUE
            /\ pc' = "load"
            /\ UNCHANGED <<exit_code, error>>
  /\ UNCHANGED <<lines, parts, cumulative, idx, slices, renders, part_files,
                 need_unify, unify_calls, concat_txt, fast_join, reenc_join,
                 FINAL_MP4, part_sizes>>
  /\ UNCHANGED <<cfgvars, bvvars, libvars>>

\* lines, parts, durations, cumulative, part_files = []
\* range(0, len(lines), 0) raises ValueError
Load ==
  /\ pc = "load"
  /\ lines' = lines_json
  /\ IF LINES_PER = 0
       THEN Abort("ValueError") /\ UNCHANGED <<parts, cumulative>>
       ELSE /\ parts' = Parts(lines_json, LINES_PER)
            /\ cumulative' = Cumulative(lines_json)
            /\ pc' = IF Len(parts') > 0 THEN "slice" ELSE "unify"
            /\ UNCHANGED <<exit_code, error>>
  /\ UNCHANGED <<TEMP, idx, slices, renders, part_files, need_unify,
                 unify_calls, concat_txt, fast_join, reenc_join, FINAL_MP4,
                 part_sizes>>
  /\ UNCHANGED <<cfgvars, bvvars, libvars>>

\* mutant of AfterSlice: subprocess.run without check=True
AfterSliceUnchecked(o) == "render"

\* where the script goes after the audio-slice subprocess.run(check=True)
AfterSlice(o) ==
  IF o = "ok" THEN "render" ELSE IF o = "hang" THEN "blocked" ELSE "exited"

\* the chunk loop up to the audio slice of chunk idx
Slice ==
  /\ pc = "slice"
  /\ LET chunk   == parts[idx + 1]
         t_start == TStart(cumulative, LINES_PER, idx)
         t_end   == TEnd(cumulative, LINES_PER, idx, chunk)
         t_len   == t_end - t_start
     IN \E o \in ToolOutcomes :
          /\ slices' = Append(slices, [idx |-> idx, ss |-> t_start,
                                       t |-> t_len, result |-> o])
          /\ pc' = AfterSlice(o)
          /\ error' = IF pc' = "exited" THEN "CalledProcessError" ELSE error
          /\ exit_code' = IF pc' = "exited" THEN ExitCodeOf(error')
                                             ELSE exit_code
  /\ UNCHANGED <<TEMP, lines, parts, cumulative, idx, renders, part_files,
                 need_unify, unify_calls, concat_txt, fast_join, reenc_join,
                 FINAL_MP4, part_sizes>>
  /\ UNCHANGED <<cfgvars, bvvars, libvars>>

\* where the script goes after build_video(...) of chunk i out of n chunks
AfterRender(o, i, n) ==
  IF o # "ok" THEN "exited" ELSE IF i + 1 < n THEN "slice" ELSE "unify"

\* part_files.append(mp4_part)
AppendPart(files, i) == Append(files, PartFile(i))

\* the rest of the chunk loop: build_video(...) and part_files.append
RenderWith(outcomes) ==
  /\ pc = "render"
  /\ renders' = Append(renders, idx)
  /\ \E o \in outcomes :
       /\ pc' = AfterRender(o, idx, Len(parts))
       /\ IF o = "ok"
            THEN /\ part_files' = AppendPart(part_files, idx)
                 /\ idx' = idx + 1
                 /\ UNCHANGED <<exit_code, error>>
            ELSE /\ UNCHANGED <<part_files, idx>>
                 /\ error' = IF o = "TypeError" THEN "TypeError"
                                               ELSE "Exception"
                 /\ exit_code' = ExitCodeOf(error')
  /\ UNCHANGED <<TEMP, lines, parts, cumulative, slices, need_unify,
                 unify_calls, concat_txt, fast_join, reenc_join, FINAL_MP4,
                 part_sizes>>
  /\ UNCHANGED <<cfgvars, bvvars, libvars>>

Render == RenderWith(RenderOutcomes)

\* mutant of FixedFiles: only the first file is replaced by its _fix file
FixedFilesFirstOnly(files) ==
  [i \in 1 .. Len(files) |-> IF i = 1 THEN FixFile(files[i]) ELSE files[i]]

\* fixed_files after the unify loop ran over all of part_files
FixedFiles(files) == [i \in 1 .. Len(files) |-> FixFile(files[i])]

\* need_unify = args.force_reencode or _needs_unify_size(part_files, ...)
NeedUnify(force, probes) == force \/ NeedsUnifySize(probes)

\* need_unify and the unify loop.  probes is what ffprobe reports for the
\* rendered files.  The loop calls _unify_size for the files in order; k is
\* the number of calls that succeed (k = len: all of them), and the call
\* after them exits non-zero or never returns
Unify ==
  /\ pc = "unify"
  /\ \E probes \in [1 .. Len(part_files) -> ProbeResults] :
       /\ part_sizes' = probes
       /\ need_unify' = NeedUnify(force_reencode, probes)
       /\ IF need_unify'
            THEN \E k \in 0 .. Len(part_files), bad \in {"nonzero", "hang"} :
                   /\ unify_calls' =
                        SubSeq(part_files, 1, Min(k + 1, Len(part_files)))
                   /\ IF k = Len(part_files)
                        THEN /\ part_files' = FixedFiles(part_files)
                             /\ pc' = "concat_txt"
                             /\ UNCHANGED <<exit_code, error>>
                        ELSE /\ part_files' = part_files
                             /\ IF bad = "hang"
                                  THEN /\ pc' = "blocked"
                                       /\ UNCHANGED <<exit_code, error>>
                                  ELSE Abort("CalledProcessError")
            ELSE /\ pc' = "concat_txt"
                 /\ UNCHANGED <<unify_calls, part_files, exit_code, error>>
  /\ UNCHANGED <<TEMP, lines, parts, cumulative, idx, slices, renders,
                 concat_txt, fast_join, reenc_join, FINAL_MP4>>
  /\ UNCHANGED <<cfgvars, bvvars, libvars>>

\* the files concat.txt lists, in the order it lists them
ConcatList(files) == files

\* concat_txt.write_text(...)
WriteConcat ==
  /\ pc = "concat_txt"
  /\ concat_txt' = ConcatList(part_files)
  /\ pc' = "fast"
  /\ UNCHANGED <<TEMP, lines, parts, cumulative, idx, slices, renders,
                 part_files, need_unify, unify_calls, fast_join, reenc_join,
                 FINAL_MP4, exit_code, error, part_sizes>>
  /\ UNCHANGED <<cfgvars, bvvars, libvars>>

\* mutant of AfterFastJoin: no except branch, a failed fast join ends the run
AfterFastJoinNoFallback(o) == IF o = "ok" THEN "finish" ELSE "exited"

\* try: the -c copy join; except subprocess.CalledProcessError: go on to
\* the re-encode join
AfterFastJoin(o) ==
  IF o = "ok" THEN "finish" ELSE IF o = "hang" THEN "blocked" ELSE "reencode"

FastJoin ==
  /\ pc = "fast"
  /\ \E o \in ToolOutcomes :
       /\ fast_join' = o
       /\ FINAL_MP4' \in OutputAfter(o, FINAL_MP4)
       /\ pc' = AfterFastJoin(o)
  /\ UNCHANGED <<TEMP, lines, parts, cumulative, idx, slices, renders,
                 part_files, need_unify, unify_calls, concat_txt, reenc_join,
                 exit_code, error, part_sizes>>
  /\ UNCHANGED <<cfgvars, bvvars, libvars>>

\* the re-encode join, subprocess.run(check=True) inside the except block
AfterReencodeJoin(o) ==
  IF o = "ok" THEN "finish" ELSE IF o = "hang" THEN "blocked" ELSE "exited"

ReencodeJoin ==
  /\ pc = "reencode"
  /\ \E o \in ToolOutcomes :
       /\ reenc_join' = o
       /\ FINAL_MP4' \in OutputAfter(o, FINAL_MP4)
       /\ pc' = AfterReencodeJoin(o)
       /\ error' = IF pc' = "exited" THEN "CalledProcessError" ELSE error
       /\ exit_code' = IF pc' = "exited" THEN ExitCodeOf(error')
                                          ELSE exit_code
  /\ UNCHANGED <<TEMP, lines, parts, cumulative, idx, slices, renders,
                 part_files, need_unify, unify_calls, concat_txt, fast_join,
                 part_sizes>>
  /\ UNCHANGED <<cfgvars, bvvars, libvars>>

\* print, shutil.rmtree(TEMP), end of the script
Finish ==
  /\ pc = "finish"
  /\ TEMP' = FALSE
  /\ pc' = "exited"
  /\ exit_code' = ExitCodeOf(error)
  /\ UNCHANGED <<lines, parts, cumulative, idx, slices, renders, part_files,
                 need_unify, unify_calls, concat_txt, fast_join, reenc_join,
                 FINAL_MP4, error, part_sizes>>
  /\ UNCHANGED <<cfgvars, bvvars, libvars>>

Next ==
  \/ Start
  \/ Load
  \/ Slice
  \/ Render
  \/ Unify
  \/ WriteConcat
  \/ FastJoin
  \/ ReencodeJoin
  \/ Finish

\* chunk_builder.py with subtitle_video.py as it is in the repository
Spec == Init /\ [][Next]_vars

\* chunk_builder.py taken by itself, with a compositor whose call binds: the
\* call of build_video in the chunk loop either returns or raises.  This
\* contains every run of Spec (there the call always raises), and it also
\* contains the runs in which chunks get rendered
RenderAny == RenderWith({"ok", "raise"})

NextAny ==
  \/ Start
  \/ Load
  \/ Slice
  \/ RenderAny
  \/ Unify
  \/ WriteConcat
  \/ FastJoin
  \/ ReencodeJoin
  \/ Finish

SpecAnyCompositor == Init /\ [][NextAny]_vars

(***************************************************************************)
(* subtitle_video.py: build_video called directly on one chunk of the      *)
(* partition, with keywords it accepts (lines, bg_path, voice_mp3,         *)
(* out_mp4, rows).                                                         *)
(***************************************************************************)
\* dur = float(entry[3]) if len(entry) > 3 else 1.0
EntryDur(entry) == IF Len(entry) > 3 THEN entry[4] ELSE DefaultDurMs

\* if dur <= 0: dur = 0.8
ClipDur(dur) == IF dur <= 0 THEN MinClipDurMs ELSE dur

\* heights TextClip can give the upper and the lower caption text
\* (method="caption", width TEXT_W)
TopHeights == {100, 800, 1100}
BotHeights == {100, 1100}

\* (fsize_top, fsize_bot) as passed by the caller; 0 stands for None
FontArgs == {<<0, 0>>, <<MIN_FONT_SIZE, MIN_FONT_SIZE>>, <<20, 400>>}

Max(a, b) == IF a >= b THEN a ELSE b

\* int(fsize_top or FONT_SIZE_TOP)
BaseFS(fsize, default) == IF fsize # 0 THEN fsize ELSE default

\* height of _bg(txt)
BgH(txt_h) == txt_h + PAD_Y * 2

\* math.floor(fs * max(0.8, min(0.95, 1.0 - overflow / max(1, block_h)))),
\* in exact arithmetic
ScaledFont(fs, block_h, overflow) ==
  LET d == Max(1, block_h)
      n == d - overflow
  IN  IF n * 5 < 4 * d THEN (fs * 4) \div 5
      ELSE IF n * 20 > 19 * d THEN (fs * 19) \div 20
      ELSE (fs * n) \div d

\* _fit_block_height(top_h, bot_h, rows, fs_top, fs_bot)
fit_block_height(top_h, bot_h, rows, fs_t, fs_b) ==
  LET block_h  == IF rows >= 2 THEN top_h + LINE_GAP + bot_h ELSE top_h
      overflow == POS_Y + block_h + BOTTOM_MARGIN - SCREEN_H
  IN  IF overflow <= 0
      THEN <<fs_t, fs_b, 0>>
      ELSE <<Max(MIN_FONT_SIZE, ScaledFont(fs_t, block_h, overflow)),
             Max(MIN_FONT_SIZE, ScaledFont(fs_b, block_h, overflow)),
             overflow>>

\* the elements of one clip as first positioned: top_bg, top_clip and, with
\* rows >= 2, bot_bg, bot_clip (top_clip and bot_clip are the text heights)
Placed(top_clip, bot_clip, rows) ==
  LET y_bot == POS_Y + BgH(top_clip) + LINE_GAP
  IN  <<[name |-> "top_bg",   y |-> POS_Y - PAD_Y, h |-> BgH(top_clip)],
        [name |-> "top_clip", y |-> POS_Y,         h |-> top_clip]>>
      \o (IF rows >= 2
          THEN <<[name |-> "bot_bg",   y |-> y_bot - PAD_Y, h |-> BgH(bot_clip)],
                 [name |-> "bot_clip", y |-> y_bot,         h |-> bot_clip]>>
          ELSE <<>>)

\* y_cursor after the placement
YCursor(top_clip, bot_clip, rows) ==
  IF rows >= 2
  THEN POS_Y + BgH(top_clip) + LINE_GAP + BgH(bot_clip)
  ELSE POS_Y + BgH(top_clip)

\* mutant of NudgeY: the elements stay where they were placed
NudgeYNone(y, ov2) == y

\* if overflow2 > 0: every element moves up by overflow2
NudgeY(y, ov2) == IF ov2 > 0 THEN y - ov2 ELSE y

\* the state in which chunk_builder has loaded lines.json and reached chunk
\* idx of its loop, and build_video is entered with lines = that chunk
InitBV ==
  /\ LibIdle
  /\ ROWS \in RowChoices
  /\ lines_json \in InputLines(ROWS)
  /\ LINES_PER \in 1 .. MaxChunk
  /\ size_ok = TRUE
  /\ files_ok = TRUE
  /\ force_reencode = FALSE
  /\ pc = "call"
  /\ TEMP = TRUE
  /\ lines = lines_json
  /\ parts = Parts(lines_json, LINES_PER)
  /\ cumulative = Cumulative(lines_json)
  /\ idx \in 0 .. (Len(parts) - 1)
  /\ slices = <<>>
  /\ renders = <<>>
  /\ part_files = <<>>
  /\ need_unify = FALSE
  /\ unify_calls = <<>>
  /\ concat_txt = <<>>
  /\ fast_join = "none"
  /\ reenc_join = "none"
  /\ FINAL_MP4 = "absent"
  /\ exit_code = Running
  /\ error = "none"
  /\ part_sizes = <<>>
  /\ bv_pc = "loop"
  /\ bv_lines = parts[idx + 1]
  /\ bv_i = 1
  /\ bv_read = <<>>
  /\ clips = <<>>
  /\ video_dur = -1
  /\ \E fa \in FontArgs : fsize_top = fa[1] /\ fsize_bot = fa[2]
  /\ fs_top = 0
  /\ fs_bot = 0
  /\ elem = <<>>
  /\ overflow2 = 0

\* one iteration of "for entry in lines": the clip of one line
BVEntry ==
  /\ bv_pc = "loop"
  /\ bv_i <= Len(bv_lines)
  /\ LET entry == bv_lines[bv_i]
         dur   == EntryDur(entry)
     IN /\ bv_read' = Append(bv_read, dur)
        /\ clips' = Append(clips, ClipDur(dur))
  /\ \E top1 \in TopHeights :
     \E bot1 \in (IF ROWS >= 2 THEN BotHeights ELSE {0}) :
       LET base_FS_TOP == BaseFS(fsize_top, FONT_SIZE_TOP)
           base_FS_BOT == BaseFS(fsize_bot, FONT_SIZE_BOT)
           top_h == BgH(top1)
           bot_h == IF ROWS >= 2 THEN BgH(bot1) ELSE 0
           fit   == fit_block_height(top_h, bot_h, ROWS,
                                     base_FS_TOP, base_FS_BOT)
           \* if (fs_top2 != fs_top) or (rows >= 2 and fs_bot2 != fs_bot)
           redo  == \/ fit[1] # base_FS_TOP
                    \/ ROWS >= 2 /\ fit[2] # base_FS_BOT
       IN \* the clips are made again only with changed font sizes, and
          \* then have whatever height TextClip gives them
          \E top_clip \in (IF redo THEN TopHeights ELSE {top1}) :
          \E bot_clip \in (IF redo /\ ROWS >= 2 THEN BotHeights ELSE {bot1}) :
            LET placed == Placed(top_clip, bot_clip, ROWS)
                ov2    == YCursor(top_clip, bot_clip, ROWS)
                            + BOTTOM_MARGIN - SCREEN_H
            IN /\ fs_top' = IF redo THEN fit[1] ELSE base_FS_TOP
               /\ fs_bot' = IF redo THEN fit[2] ELSE base_FS_BOT
               /\ overflow2' = ov2
               /\ elem' = [j \in 1 .. Len(placed) |->
                             [placed[j] EXCEPT !.y = NudgeY(@, ov2)]]
  /\ bv_i' = bv_i + 1
  /\ UNCHANGED <<bv_pc, bv_lines, video_dur, fsize_top, fsize_bot>>
  /\ UNCHANGED <<cfgvars, runvars, libvars>>

\* concatenate_videoclips(clips), with_audio, write_videofile
BVWrite ==
  /\ bv_pc = "loop"
  /\ bv_i > Len(bv_lines)
  /\ video_dur' = SumSeq(clips)
  /\ bv_pc' = "written"
  /\ UNCHANGED <<bv_lines, bv_i, bv_read, clips,
                 fsize_top, fsize_bot, fs_top, fs_bot, elem, overflow2>>
  /\ UNCHANGED <<cfgvars, runvars, libvars>>

NextBV ==
  \/ BVEntry
  \/ BVWrite

SpecBV == InitBV /\ [][NextBV]_vars

(***************************************************************************)
(* subtitle_video.py: the caption texts and fonts build_video makes for    *)
(* one entry.  A text is the sequence of its lines (the text split at      *)
(* "\n", so "" is one empty line), a line the sequence of its characters.  *)
(***************************************************************************)
MaxWrapLines == 4    \* most lines textwrap gives an enumerated caption

MAX_TOP_LINES == 3
MAX_BOT_LINES == 3

FONT_LATN == "RobotoSerif_36pt-Bold.ttf"
FONT_JP   == "NotoSansJP-Bold.ttf"
FONT_KO   == "malgunbd.ttf"
Fonts     == {FONT_LATN, FONT_JP, FONT_KO}

\* entry[0]
Speakers == {"N", "Alice", "Bob"}

\* characters by what unicodedata.name says of them: "HANGUL" has HANGUL in
\* its name, "KANA" has CJK, HIRAGANA or KATAKANA, "a" and " " neither
LineChoices == {<<"a", " ", "a">>, <<"a", "HANGUL", "KANA">>, <<"KANA", "HANGUL">>}

\* what textwrap.wrap returns: no line at all for an empty text
WrappedTexts ==
  {[i \in 1 .. k |-> l] : k \in 0 .. MaxWrapLines, l \in LineChoices}

\* the run of chunk_builder.py is not in progress
RunIdle ==
  /\ lines_json = <<>>
  /\ LINES_PER = 1
  /\ size_ok = TRUE
  /\ files_ok = TRUE
  /\ force_reencode = FALSE
  /\ pc = "idle"
  /\ TEMP = FALSE
  /\ lines = <<>>
  /\ parts = <<>>
  /\ cumulative = <<>>
  /\ idx = 0
  /\ slices = <<>>
  /\ renders = <<>>
  /\ part_files = <<>>
  /\ need_unify = FALSE
  /\ unify_calls = <<>>
  /\ concat_txt = <<>>
  /\ fast_join = "none"
  /\ reenc_join = "none"
  /\ FINAL_MP4 = "absent"
  /\ exit_code = Running
  /\ error = "none"
  /\ part_sizes = <<>>

\* textwrap.fill(text, ...) and "\n".join(textwrap.wrap(text, ...))
Fill(wrapped) == IF wrapped = <<>> THEN << <<>> >> ELSE wrapped

\* bot_body = wrap_...(bot_body_raw, ...) + "\n "
BotPad(text) == text \o << <<" ">> >>

\* str.rstrip()
RECURSIVE RStrip(_)
RStrip(line) ==
  IF line # <<>> /\ line[Len(line)] = " "
  THEN RStrip(SubSeq(line, 1, Len(line) - 1))
  ELSE line

\* str.splitlines()
SplitLines(text) ==
  IF text = << <<>> >> THEN <<>>
  ELSE IF text[Len(text)] = <<>> THEN SubSeq(text, 1, Len(text) - 1)
  ELSE text

\* trim_lines(text, max_lines)
trim_lines(text, max_lines) ==
  LET sl   == SplitLines(text)
      ls   == IF sl = <<>> THEN << <<>> >> ELSE sl
      kept == SubSeq(ls, 1, max_lines)
  IN  IF Len(ls) <= max_lines
      THEN ls
      ELSE [kept EXCEPT ![max_lines] = RStrip(@) \o <<"ELLIPSIS">>]

\* mutant of ShowLabel: hide_n_label hides every label
ShowLabelHideAll(spk, hide) == ~hide

\* show_label = (not is_n) or (is_n and not hide_n_label)
ShowLabel(spk, hide) == (spk # "N") \/ (spk = "N" /\ ~hide)

\* top_txt = f"{speaker}: {top_body}" if show_label else top_body
TopTxt(spk, body, show) ==
  IF show THEN [body EXCEPT ![1] = <<spk, ": ">> \o @] ELSE body

\* the characters of a text, in order
RECURSIVE CharsOf(_)
CharsOf(text) ==
  IF text = <<>> THEN <<>> ELSE Head(text) \o CharsOf(Tail(text))

\* _first_existing(paths)
RECURSIVE first_existing(_, _)
first_existing(paths, inst) ==
  IF paths = <<>> THEN "None"
  ELSE IF Head(paths) \in inst THEN Head(paths)
  ELSE first_existing(Tail(paths), inst)

\* _first_existing(...) or FONT_LATN
OrLatn(p) == IF p = "None" THEN FONT_LATN ELSE p

\* mutant of PickFrom: a Hangul character anywhere in the text decides
PickFromHangulAnywhere(chars, inst) ==
  IF \E i \in 1 .. Len(chars) : chars[i] = "HANGUL"
  THEN OrLatn(first_existing(<<FONT_KO, FONT_JP, FONT_LATN>>, inst))
  ELSE IF \E i \in 1 .. Len(chars) : chars[i] = "KANA"
  THEN OrLatn(first_existing(<<FONT_JP, FONT_LATN>>, inst))
  ELSE OrLatn(first_existing(<<FONT_LATN, FONT_JP, FONT_KO>>, inst))

\* the loop "for ch in txt" of pick_font and the return after it
RECURSIVE PickFrom(_, _)
PickFrom(chars, inst) ==
  IF chars = <<>>
  THEN OrLatn(first_existing(<<FONT_LATN, FONT_JP, FONT_KO>>, inst))
  ELSE IF Head(chars) = "HANGUL"
  THEN OrLatn(first_existing(<<FONT_KO, FONT_JP, FONT_LATN>>, inst))
  ELSE IF Head(chars) = "KANA"
  THEN OrLatn(first_existing(<<FONT_JP, FONT_LATN>>, inst))
  ELSE PickFrom(Tail(chars), inst)

\* pick_font(text)
pick_font(text, inst) == PickFrom(CharsOf(text), inst)

InitCaption ==
  /\ RunIdle
  /\ BvIdle
  /\ UpIdle
  /\ R1Idle
  /\ GenIdle
  /\ DlgIdle
  /\ GapIdle
  /\ ROWS \in RowChoices
  /\ cap_pc = "top"
  /\ speaker \in Speakers
  /\ hide_n_label \in BOOLEAN
  /\ installed \in SUBSET Fonts
  /\ top_wrap \in WrappedTexts
  /\ bot_wrap \in WrappedTexts
  /\ top_body = <<>>
  /\ bot_body = <<>>
  /\ top_txt = <<>>
  /\ top_fonts = <<>>
  /\ bot_fonts = <<>>

\* the upper text: wrap, trim_lines, label, first TextClip
CapTop ==
  /\ cap_pc = "top"
  /\ LET body == trim_lines(Fill(top_wrap), MAX_TOP_LINES)
     IN /\ top_body' = body
        /\ top_txt' = TopTxt(speaker, body, ShowLabel(speaker, hide_n_label))
        /\ top_fonts' = <<pick_font(body, installed)>>
  /\ cap_pc' = IF ROWS >= 2 THEN "bottom" ELSE "fit"
  /\ UNCHANGED <<speaker, hide_n_label, installed, top_wrap, bot_wrap,
                 bot_body, bot_fonts>>
  /\ UNCHANGED capothers

\* if rows >= 2: the lower text and its first TextClip
CapBottom ==
  /\ cap_pc = "bottom"
  /\ LET body == trim_lines(BotPad(Fill(bot_wrap)), MAX_BOT_LINES)
     IN /\ bot_body' = body
        /\ bot_fonts' = <<pick_font(body, installed)>>
  /\ cap_pc' = "fit"
  /\ UNCHANGED <<speaker, hide_n_label, installed, top_wrap, bot_wrap,
                 top_body, top_txt, top_fonts>>
  /\ UNCHANGED capothers

\* the font sizes changed: both clips are made again, pick_font is called
\* again on the same texts
CapRemake ==
  /\ cap_pc = "fit"
  /\ top_fonts' = Append(top_fonts, pick_font(top_body, installed))
  /\ bot_fonts' = IF ROWS >= 2
                  THEN Append(bot_fonts, pick_font(bot_body, installed))
                  ELSE bot_fonts
  /\ cap_pc' = "composed"
  /\ UNCHANGED <<speaker, hide_n_label, installed, top_wrap, bot_wrap,
                 top_body, bot_body, top_txt>>
  /\ UNCHANGED capothers

\* the font sizes did not change: the clips are used as they are
CapKeep ==
  /\ cap_pc = "fit"
  /\ cap_pc' = "composed"
  /\ UNCHANGED <<speaker, hide_n_label, installed, top_wrap, bot_wrap,
                 top_body, bot_body, top_txt, top_fonts, bot_fonts>>
  /\ UNCHANGED capothers

NextCaption ==
  \/ CapTop
  \/ CapBottom
  \/ CapRemake
  \/ CapKeep

SpecCaption == InitCaption /\ [][NextCaption]_vars

(***************************************************************************)
(* main.py: _concat_with_gaps.  An AudioSegment is a whole number of       *)
(* frames; its length is kept here in ticks of 1/TicksPerMs ms, and len()  *)
(* gives it rounded to whole milliseconds.                                 *)
(***************************************************************************)
MaxUtter == 3        \* most utterances enumerated

TicksPerMs == 4

\* true lengths of the utterance files, in ticks (300.25, 900 and 1200.75 ms)
UtterTicks == {1201, 3600, 4803}

\* GAP_MS, PRE_SIL_MS, MIN_UTTER_MS and zero
GapChoices == {0, 120}
PreChoices == {0, 120}
MinChoices == {0, 1000}

UtterSeqs == UNION {[1 .. n -> UtterTicks] : n \in 0 .. MaxUtter}

\* AudioSegment.silent(duration=ms)
Silent(ms) == ms * TicksPerMs

\* len(seg): round(1000 * frame_count / frame_rate), round-half-even
PyLen(ticks) ==
  LET q == ticks \div TicksPerMs
      r == ticks % TicksPerMs
  IN  IF 2 * r < TicksPerMs THEN q
      ELSE IF 2 * r > TicksPerMs THEN q + 1
      ELSE IF q % 2 = 0 THEN q ELSE q + 1

\* if len(seg) < min_ms: seg += AudioSegment.silent(duration=min_ms - len(seg))
PadToMin(seg, min) ==
  IF PyLen(seg) < min THEN seg + Silent(min - PyLen(seg)) ELSE seg

InitGaps ==
  /\ RunIdle
  /\ ROWS = 2
  /\ BvIdle
  /\ UpIdle
  /\ R1Idle
  /\ GenIdle
  /\ DlgIdle
  /\ CapIdle
  /\ gp_pc = "loop"
  /\ audio_paths \in UtterSeqs
  /\ gap_ms \in GapChoices
  /\ pre_ms \in PreChoices
  /\ min_ms \in MinChoices
  /\ combined = 0
  /\ durs = <<>>
  /\ starts = <<>>

\* one iteration of "for idx, p in enumerate(audio_paths)"
GapsStep ==
  /\ gp_pc = "loop"
  /\ Len(durs) < Len(audio_paths)
  /\ LET i      == Len(durs) + 1      \* idx + 1
         seg    == PadToMin(Silent(pre_ms) + audio_paths[i], min_ms)
         seg_ms == PyLen(seg)
         extra  == IF i - 1 < Len(audio_paths) - 1 THEN gap_ms ELSE 0
     IN /\ starts' = Append(starts, combined + Silent(pre_ms))
        /\ combined' = combined + seg + Silent(extra)
        /\ durs' = Append(durs, seg_ms + extra)
  /\ UNCHANGED <<gp_pc, audio_paths, gap_ms, pre_ms, min_ms>>
  /\ UNCHANGED gapothers

\* combined.export(TEMP / "full_raw.wav"); return durs
GapsReturn ==
  /\ gp_pc = "loop"
  /\ Len(durs) = Len(audio_paths)
  /\ gp_pc' = "returned"
  /\ UNCHANGED <<audio_paths, gap_ms, pre_ms, min_ms, combined, durs, starts>>
  /\ UNCHANGED gapothers

NextGaps ==
  \/ GapsStep
  \/ GapsReturn

SpecGaps == InitGaps /\ [][NextGaps]_vars

(***************************************************************************)
(* dialogue.py: make_dialogue.  A line of the model response is kept as    *)
(* what stands before its first ":" and whether its text is empty after    *)
(* _sanitize_line.                                                         *)
(***************************************************************************)
MaxTurns    == 2     \* largest enumerated turns
MaxRawLines == 4     \* longest enumerated model response

MONOLOGUE_MODES == {"wisdom", "fact"}
Modes           == {"dialogue", "qa", "wisdom"}

\* lines the model can answer with: "Alice: ...", "Bob: ...", "N: ...", a
\* line without such a prefix, and "Alice:" with nothing after it
RawLineChoices ==
  {[pre |-> "Alice", txt |-> "t"], [pre |-> "Bob", txt |-> "t"],
   [pre |-> "N", txt |-> "t"], [pre |-> "other", txt |-> "t"],
   [pre |-> "Alice", txt |-> ""]}

\* raw_lines; the empty sequence stands for an empty response or an API
\* error (_complete returns "")
RawResponses == UNION {[1 .. n -> RawLineChoices] : n \in 0 .. MaxRawLines}

\* raw_lines[:turns] resp. raw_lines[: turns * 2]
LoopLimit(m, t) == IF m \in MONOLOGUE_MODES THEN t ELSE t * 2

\* the line is taken: "N:" lines in the monologue modes, "Alice:"/"Bob:"
\* lines in the others, and only with a non-empty text
Taken(m, ln) ==
  /\ ln.txt # ""
  /\ IF m \in MONOLOGUE_MODES THEN ln.pre = "N" ELSE ln.pre \in {"Alice", "Bob"}

\* the fallback scripts
MonologueFallback == <<[spk |-> "N", txt |-> "t"]>>
DialogueFallback  == <<[spk |-> "Alice", txt |-> "t"], [spk |-> "Bob", txt |-> "t"]>>

\* if len(result) % 2 == 1: result = result[:-1]
DropOdd(res) == IF Len(res) % 2 = 1 THEN SubSeq(res, 1, Len(res) - 1) ELSE res

InitDlg ==
  /\ RunIdle
  /\ ROWS = 2
  /\ BvIdle
  /\ UpIdle
  /\ R1Idle
  /\ GenIdle
  /\ CapIdle
  /\ GapIdle
  /\ dlg_pc = "complete"
  /\ mode \in Modes
  /\ turns \in 1 .. MaxTurns
  /\ raw_lines \in RawResponses
  /\ dlg_i = 1
  /\ result = <<>>
  /\ dlg_ret = <<>>

\* raw = _complete(...); if not raw: return the fallback
DlgComplete ==
  /\ dlg_pc = "complete"
  /\ IF raw_lines = <<>>
     THEN /\ dlg_ret' = IF mode \in MONOLOGUE_MODES
                        THEN MonologueFallback ELSE DialogueFallback
          /\ dlg_pc' = "returned"
     ELSE /\ dlg_pc' = "loop"
          /\ UNCHANGED dlg_ret
  /\ UNCHANGED <<mode, turns, raw_lines, dlg_i, result>>
  /\ UNCHANGED dlgothers

\* one iteration of the loop over the first lines of the response
DlgLine ==
  /\ dlg_pc = "loop"
  /\ dlg_i <= Min(Len(raw_lines), LoopLimit(mode, turns))
  /\ LET ln == raw_lines[dlg_i]
     IN result' = IF Taken(mode, ln)
                  THEN Append(result, [spk |-> ln.pre, txt |-> ln.txt])
                  ELSE result
  /\ dlg_i' = dlg_i + 1
  /\ UNCHANGED <<dlg_pc, mode, turns, raw_lines, dlg_ret>>
  /\ UNCHANGED dlgothers

\* after the loop: odd-length correction (dialogue modes), return result or
\* the fallback
DlgReturn ==
  /\ dlg_pc = "loop"
  /\ dlg_i > Min(Len(raw_lines), LoopLimit(mode, turns))
  /\ LET res == IF mode \in MONOLOGUE_MODES THEN result ELSE DropOdd(result)
     IN /\ result' = res
        /\ dlg_ret' = IF res # <<>> THEN res
                      ELSE IF mode \in MONOLOGUE_MODES THEN MonologueFallback
                      ELSE DialogueFallback
  /\ dlg_pc' = "returned"
  /\ UNCHANGED <<mode, turns, raw_lines, dlg_i>>
  /\ UNCHANGED dlgothers

NextDlg ==
  \/ DlgComplete
  \/ DlgLine
  \/ DlgReturn

SpecDlg == InitDlg /\ [][NextDlg]_vars

(***************************************************************************)
(* main.py: _gen_example_sentence.  A candidate is kept as the outcome of  *)
(* the model call and of each check made on cand = _clean_strict(raw).     *)
(***************************************************************************)
MaxTries == 6        \* for _ in range(6)

LangCodes == {"ja", "en"}

Cand(s, m, n, o, f, c) ==
  [src |-> s, mono |-> m, nonempty |-> n, single |-> o, fits |-> f,
   contains |-> c]

\* a model error or an empty answer (cand = ""), an answer with Latin
\* letters in ja/ko/zh, one with two sentences, one too long, one without
\* the word, and one that passes
CandChoices ==
  {Cand("error", TRUE, FALSE, TRUE, TRUE, FALSE),
   Cand("reply", TRUE, FALSE, TRUE, TRUE, FALSE),
   Cand("reply", FALSE, TRUE, TRUE, TRUE, TRUE),
   Cand("reply", TRUE, TRUE, FALSE, TRUE, TRUE),
   Cand("reply", TRUE, TRUE, TRUE, FALSE, TRUE),
   Cand("reply", TRUE, TRUE, TRUE, TRUE, FALSE),
   Cand("reply", TRUE, TRUE, TRUE, TRUE, TRUE)}

\* mutant of Accepts: the word check is left out
AcceptsWithoutWord(c) ==
  IF ~c.mono THEN FALSE ELSE c.nonempty /\ c.single /\ c.fits

\* if not _monolingual_ok(...): continue; valid = bool(cand) and
\* _is_single_sentence(cand) and _fits_length(...); if valid and contains_word
Accepts(c) ==
  IF ~c.mono THEN FALSE ELSE (c.nonempty /\ c.single /\ c.fits) /\ c.contains

InitGen ==
  /\ RunIdle
  /\ ROWS = 2
  /\ BvIdle
  /\ UpIdle
  /\ R1Idle
  /\ CapIdle
  /\ GapIdle
  /\ DlgIdle
  /\ gen_pc = "loop"
  /\ lang_code \in LangCodes
  /\ attempts = <<>>
  /\ gen_ret = [kind |-> "none"]
  /\ example_attempts = 0
  /\ example_fallbacks = 0

\* one iteration of "for _ in range(6)": the model call, the checks and
\* the return of an accepted candidate
GenTry ==
  /\ gen_pc = "loop"
  /\ Len(attempts) < MaxTries
  /\ \E c \in CandChoices :
       /\ attempts' = Append(attempts, c)
       /\ example_attempts' = example_attempts + 1
       /\ IF Accepts(c)
          THEN /\ gen_ret' = [kind |-> "candidate", try |-> Len(attempts) + 1,
                              nonempty |-> c.nonempty]
               /\ gen_pc' = "returned"
          ELSE UNCHANGED <<gen_ret, gen_pc>>
  /\ UNCHANGED <<lang_code, example_fallbacks>>
  /\ UNCHANGED genothers

\* after the loop: the fail-safe sentence of the language
GenFailSafe ==
  /\ gen_pc = "loop"
  /\ Len(attempts) = MaxTries
  /\ example_fallbacks' = example_fallbacks + 1
  /\ gen_ret' = [kind |-> "failsafe", lang |-> lang_code, nonempty |-> TRUE]
  /\ gen_pc' = "returned"
  /\ UNCHANGED <<lang_code, attempts, example_attempts>>
  /\ UNCHANGED genothers

NextGen ==
  \/ GenTry
  \/ GenFailSafe

SpecGen == InitGen /\ [][NextGen]_vars

(***************************************************************************)
(* main.py: run_one, the lines of a run: the speaker each line is spoken   *)
(* with and the speaker tag of its record in lines.json.                   *)
(***************************************************************************)
MaxRounds == 2       \* largest enumerated VOCAB_ROUNDS
MaxWords  == 2       \* largest enumerated VOCAB_WORDS
MaxConvo  == 3       \* largest enumerated CONVO_LINES

\* _gen_conversation_using_words: spk = "Alice" if i % 2 == 0 else "Bob"
ConvoSpeakers(n) == [i \in 1 .. n |-> IF (i - 1) % 2 = 0 THEN "Alice" ELSE "Bob"]

\* the word twice and its example sentence, each spoken with "N"
WordSpeakers(n) == [i \in 1 .. (3 * n) |-> "N"]

\* row = ["N"], one record per duration of new_durs
LinesData(n) == [i \in 1 .. n |-> "N"]

InitR1 ==
  /\ RunIdle
  /\ ROWS = 2
  /\ BvIdle
  /\ UpIdle
  /\ CapIdle
  /\ GapIdle
  /\ DlgIdle
  /\ GenIdle
  /\ r1_pc = "intro"
  /\ VOCAB_ROUNDS \in 0 .. MaxRounds
  /\ VOCAB_WORDS \in 0 .. MaxWords
  /\ CONVO_LINES \in 0 .. MaxConvo
  /\ round_idx = 1
  /\ speak_calls = <<>>
  /\ lines_data = <<>>

\* the intro line
R1Intro ==
  /\ r1_pc = "intro"
  /\ speak_calls' = Append(speak_calls, "N")
  /\ r1_pc' = "words"
  /\ UNCHANGED <<VOCAB_ROUNDS, VOCAB_WORDS, CONVO_LINES, round_idx, lines_data>>
  /\ UNCHANGED r1others

\* the words of one round (_pick_unique_words may give fewer than asked)
R1Words ==
  /\ r1_pc = "words"
  /\ round_idx <= VOCAB_ROUNDS
  /\ \E n \in 0 .. VOCAB_WORDS :
       speak_calls' = speak_calls \o WordSpeakers(n)
  /\ r1_pc' = "convo"
  /\ UNCHANGED <<VOCAB_ROUNDS, VOCAB_WORDS, CONVO_LINES, round_idx, lines_data>>
  /\ UNCHANGED r1others

\* the conversation that closes the round
R1Convo ==
  /\ r1_pc = "convo"
  /\ speak_calls' = speak_calls \o ConvoSpeakers(CONVO_LINES)
  /\ round_idx' = round_idx + 1
  /\ r1_pc' = "words"
  /\ UNCHANGED <<VOCAB_ROUNDS, VOCAB_WORDS, CONVO_LINES, lines_data>>
  /\ UNCHANGED r1others

\* _concat_with_gaps gives one duration per audio part; lines.json is
\* written with one record per duration
R1Lines ==
  /\ r1_pc = "words"
  /\ round_idx > VOCAB_ROUNDS
  /\ lines_data' = LinesData(Len(speak_calls))
  /\ r1_pc' = "written"
  /\ UNCHANGED <<VOCAB_ROUNDS, VOCAB_WORDS, CONVO_LINES, round_idx, speak_calls>>
  /\ UNCHANGED r1others

NextR1 ==
  \/ R1Intro
  \/ R1Words
  \/ R1Convo
  \/ R1Lines

SpecR1 == InitR1 /\ [][NextR1]_vars

(***************************************************************************)
(* main.py: _try_upload_with_fallbacks.                                    *)
(***************************************************************************)
MaxFallbacks == 2    \* longest enumerated UPLOAD_FALLBACKS

Accounts == {"a", "b", "c"}

FallbackLists == UNION {[1 .. n -> Accounts] : n \in 0 .. MaxFallbacks}

\* what upload() does: it returns, or raises an error whose message names
\* an upload limit, a token problem, both, or neither
UploadOutcomes == {"ok", "limit", "token", "limit_token", "other"}

\* _is_limit_error(e)
IsLimitError(o) == o \in {"limit", "limit_token"}

\* _is_token_error(e)
IsTokenError(o) == o \in {"token", "limit_token"}

\* [a for a in fallbacks if a != account]
RECURSIVE NotPrimary(_, _)
NotPrimary(fbs, acc) ==
  IF fbs = <<>> THEN <<>>
  ELSE IF Head(fbs) # acc THEN <<Head(fbs)>> \o NotPrimary(Tail(fbs), acc)
  ELSE NotPrimary(Tail(fbs), acc)

\* [account] + [a for a in fallbacks if a != account]
UploadOrder(acc, fbs) == <<acc>> \o NotPrimary(fbs, acc)

InitUp ==
  /\ RunIdle
  /\ ROWS = 2
  /\ BvIdle
  /\ CapIdle
  /\ GapIdle
  /\ DlgIdle
  /\ GenIdle
  /\ R1Idle
  /\ up_pc = "loop"
  /\ account \in {"a", "b"}
  /\ fallbacks \in FallbackLists
  /\ tried = <<>>
  /\ up_errs = <<>>
  /\ up_ret = "none"

\* one iteration of the loop over the accounts: upload() and its handling
UpTry ==
  /\ up_pc = "loop"
  /\ Len(tried) < Len(UploadOrder(account, fallbacks))
  /\ tried' = Append(tried, UploadOrder(account, fallbacks)[Len(tried) + 1])
  /\ \E o \in UploadOutcomes :
       /\ up_errs' = Append(up_errs, o)
       /\ IF o = "ok"
          THEN up_ret' = "True" /\ up_pc' = "returned"
          ELSE IF IsLimitError(o)
          THEN UNCHANGED <<up_ret, up_pc>>
          ELSE IF IsTokenError(o)
          THEN up_ret' = "SystemExit" /\ up_pc' = "returned"
          ELSE up_ret' = "raise" /\ up_pc' = "returned"
  /\ UNCHANGED <<account, fallbacks>>
  /\ UNCHANGED upothers

\* after the loop: UPLOAD_SKIPPED.txt, return False
UpSkipped ==
  /\ up_pc = "loop"
  /\ Len(tried) = Len(UploadOrder(account, fallbacks))
  /\ up_ret' = "False"
  /\ up_pc' = "returned"
  /\ UNCHANGED <<account, fallbacks, tried, up_errs>>
  /\ UNCHANGED upothers

NextUp ==
  \/ UpTry
  \/ UpSkipped

SpecUp == InitUp /\ [][NextUp]_vars

(***************************************************************************)
(* Properties.                                                             *)
(***************************************************************************)
\* Load has run and built parts and cumulative
Loaded == cumulative # <<>>

\* the 0-based indexes of the chunks of the partition
ChunkIdx == 0 .. (Len(parts) - 1)

\* the window of chunk k as the chunk loop computes it
WinStart(k) == TStart(cumulative, LINES_PER, k)
WinEnd(k) == TEnd(cumulative, LINES_PER, k, parts[k + 1])
WinLen(k) == WinEnd(k) - WinStart(k)

\* C1: for every chunk, the duration of the segment build_video produces
\* (the sum of the durations of the clips it composes) equals the window
\* length t_end - t_start chunk_builder computes for that chunk, also for
\* records whose duration is 0 or negative.
C1_SegmentDurationIsWindow ==
  bv_pc = "written" => video_dur = WinLen(idx)

\* C2: for rows 1 and 2, build_video reads for every line the duration that
\* chunk_builder reads, the last element of the record.
C2_SameDurationRead ==
  \A i \in 1 .. Len(bv_read) : bv_read[i] = RowDur(bv_lines[i])

\* C3: for every chunk size >= 1, the window lengths of all chunks of the
\* partition (the code drops none of them) add up to the sum of the
\* durations of all lines.
RECURSIVE SumWinLen(_)
SumWinLen(n) == IF n = 0 THEN 0 ELSE WinLen(n - 1) + SumWinLen(n - 1)

C3_WindowsSumToTotal ==
  (Loaded /\ LINES_PER >= 1) =>
    SumWinLen(Len(parts)) = SumSeq(Durations(lines))

C3_Witness ==
  /\ Loaded
  /\ LINES_PER >= 1
  /\ Len(parts) >= 2
  /\ Len(parts[1]) >= 2
  /\ SumSeq(Durations(lines)) > 0
  /\ SumWinLen(Len(parts)) = SumSeq(Durations(lines))

\* C4: the window of chunk k runs from the timeline entry of its first line
\* to the entry one past its last line; its length is the sum of the
\* durations of exactly its lines; chunk 0 starts at 0; every chunk starts
\* where the previous one ends; the audio slice of a chunk is cut with that
\* start and length; and scenario A (2.0, 1.5, 3.0, 0.5, 2.0 seconds, chunk
\* size 2) has the windows [0,3.5) [3.5,7.0) [7.0,9.0).
IsExampleA == Durations(lines) = ExampleDurs /\ LINES_PER = 2

C4_ChunkWindows ==
  Loaded =>
    /\ \A k \in ChunkIdx :
         /\ WinLen(k) = SumSeq(Durations(parts[k + 1]))
         /\ k = 0 => WinStart(k) = 0
         /\ k > 0 => WinStart(k) = WinEnd(k - 1)
    /\ \A j \in 1 .. Len(slices) :
         /\ slices[j].ss = cumulative[slices[j].idx * LINES_PER + 1]
         /\ slices[j].t = SumSeq(Durations(parts[slices[j].idx + 1]))
    /\ IsExampleA =>
         /\ Len(parts) = 3
         /\ <<WinStart(0), WinEnd(0)>> = <<0, 3500>>
         /\ <<WinStart(1), WinEnd(1)>> = <<3500, 7000>>
         /\ <<WinStart(2), WinEnd(2)>> = <<7000, 9000>>

C4_Witness ==
  /\ Loaded
  /\ IsExampleA
  /\ Len(slices) = 1
  /\ slices[1].ss = 0
  /\ slices[1].t = 3500
  /\ WinStart(2) = 7000

\* C5: for max_lines_per_chunk >= 1 the partition is made of non-empty
\* groups of at most max_lines_per_chunk lines, group k holds the lines from
\* index k * max_lines_per_chunk on, and the groups concatenated in index
\* order are the input sequence.
RECURSIVE Flatten(_)
Flatten(ps) == IF ps = <<>> THEN <<>> ELSE Head(ps) \o Flatten(Tail(ps))

C5_Partition ==
  (Loaded /\ LINES_PER >= 1) =>
    /\ \A k \in 1 .. Len(parts) :
         /\ Len(parts[k]) >= 1
         /\ Len(parts[k]) <= LINES_PER
         /\ \A j \in 1 .. Len(parts[k]) :
              parts[k][j] = lines[(k - 1) * LINES_PER + j]
    /\ Flatten(parts) = lines

C5_Witness ==
  /\ Loaded
  /\ LINES_PER = 2
  /\ Len(lines) = 3
  /\ Len(parts) = 2
  /\ Len(parts[2]) = 1
  /\ Flatten(parts) = lines

\* C6: the timeline of n lines has n + 1 entries, offset[0] = 0 and
\* offset[i] = offset[i-1] + duration[i-1] for 1 <= i <= n.
C6_Timeline ==
  Loaded =>
    /\ Len(cumulative) = Len(lines) + 1
    /\ cumulative[1] = 0
    /\ \A i \in 1 .. Len(lines) :
         cumulative[i + 1] = cumulative[i] + lines[i][Len(lines[i])]

C6_Witness ==
  /\ Loaded
  /\ Len(lines) = 3
  /\ cumulative[2] # 0
  /\ cumulative[3] # cumulative[2]
  /\ cumulative[4] # cumulative[3]

\* concat.txt has been written
ConcatWritten == pc = "fast" \/ fast_join # "none"

\* C7: concat.txt lists exactly one file per rendered chunk, in increasing
\* chunk-index order, and its files are either all the _fix files (the
\* unification pass ran) or all the files build_video wrote (it did not).
C7_ConcatListOrdered ==
  ConcatWritten =>
    /\ Len(concat_txt) = Len(renders)
    /\ \A i \in 1 .. Len(concat_txt) :
         /\ concat_txt[i].idx = renders[i]
         /\ concat_txt[i].idx = i - 1
         /\ concat_txt[i].kind = IF need_unify THEN "fix" ELSE "part"

C7_Witness ==
  /\ ConcatWritten
  /\ need_unify
  /\ Len(renders) = 3
  /\ concat_txt = <<FixFile(PartFile(0)), FixFile(PartFile(1)),
                    FixFile(PartFile(2))>>

\* C8: the re-encode join is attempted only after the fast join was
\* attempted and failed; a run that ended after a failed fast join did
\* attempt the re-encode join; a run in which either join succeeded ends
\* with exit code 0; and the failure of the fast join by itself sets no
\* failure exit code.
C8_JoinFallback ==
  /\ reenc_join # "none" => fast_join = "nonzero"
  /\ (pc = "exited" /\ fast_join = "nonzero") => reenc_join # "none"
  /\ (pc = "exited" /\ (fast_join = "ok" \/ reenc_join = "ok")) =>
       exit_code = ExitSuccess
  /\ (fast_join = "nonzero" /\ reenc_join # "nonzero") =>
       exit_code # ExitFailure

C8_Witness ==
  /\ pc = "exited"
  /\ fast_join = "nonzero"
  /\ reenc_join = "ok"
  /\ exit_code = ExitSuccess

\* the audio slice of chunk idx failed; build_video of chunk idx raised
SliceFailed == slices # <<>> /\ slices[Len(slices)].result = "nonzero"
RenderFailed == Len(renders) > idx

\* C9: once the audio slice or the render of chunk k has failed the run is
\* over with a failure exit code: no chunk after k was or is sliced or
\* rendered, nothing was unified, no concat.txt was written, no join was
\* attempted, and no further step is taken.
C9_Aborted ==
  (SliceFailed \/ RenderFailed) =>
    /\ pc = "exited"
    /\ exit_code = ExitFailure
    /\ \A j \in 1 .. Len(slices) : slices[j].idx <= idx
    /\ \A j \in 1 .. Len(renders) : renders[j] <= idx
    /\ unify_calls = <<>>
    /\ ~need_unify
    /\ concat_txt = <<>>
    /\ ~ConcatWritten
    /\ reenc_join = "none"

C9_ChunkFailureAborts ==
  /\ []C9_Aborted
  /\ [][(SliceFailed \/ RenderFailed) => FALSE]_vars

C9_Witness ==
  /\ RenderFailed
  /\ pc = "exited"
  /\ Len(parts) > idx + 1
  /\ Len(slices) = idx + 1

\* C10: when the run is over, either it succeeded and the output path holds
\* the complete joined video, or it failed and the output path holds nothing
\* this run wrote.
C10_NoPartialOutput ==
  pc = "exited" =>
    \/ exit_code = ExitSuccess /\ FINAL_MP4 = "complete"
    \/ exit_code = ExitFailure /\ FINAL_MP4 = "absent"

\* C11: when the run is over, on every exit path, the temporary directory
\* made at its start is gone.
C11_TempRemoved == pc = "exited" => ~TEMP

\* the script got past the size-unification step
PassedUnify == pc = "concat_txt" \/ ConcatWritten

\* _unify_size was called for every rendered part, in order
UnifiedAll ==
  /\ Len(unify_calls) = Len(renders)
  /\ \A i \in 1 .. Len(unify_calls) : unify_calls[i] = PartFile(renders[i])

SomeSizeDiffers ==
  \E i \in 1 .. Len(part_sizes) : part_sizes[i] = "differ"
AllSizesMatch ==
  \A i \in 1 .. Len(part_sizes) : part_sizes[i] = "match"

C13_CompositorAcceptsCanvas == error # "TypeError"

\* C14: no chunk whose window length is <= epsilon is handed to the audio
\* slicer or to build_video, and none has a file in concat.txt.
C14_NoDegenerateChunkProcessed ==
  /\ \A j \in 1 .. Len(slices) : slices[j].t > EpsilonMs
  /\ \A j \in 1 .. Len(renders) : WinLen(renders[j]) > EpsilonMs
  /\ \A j \in 1 .. Len(concat_txt) : WinLen(concat_txt[j].idx) > EpsilonMs

\* C15: when every chunk is <= epsilon long (also when there is no chunk),
\* no join is attempted and the run does not end with exit code 0.
AllChunksDegenerate ==
  Loaded /\ \A k \in ChunkIdx : WinLen(k) <= EpsilonMs

C15_EmptyOutputFails ==
  AllChunksDegenerate =>
    /\ fast_join = "none"
    /\ reenc_join = "none"
    /\ pc = "exited" => exit_code # ExitSuccess

\* C16: a lines.json that is empty, or holds a negative duration, or holds
\* no positive duration is rejected before the temporary directory is made
\* and before any external process is started.
InvalidInput(ls) ==
  \/ ls = <<>>
  \/ \E i \in 1 .. Len(ls) : RowDur(ls[i]) < 0
  \/ \A i \in 1 .. Len(ls) : RowDur(ls[i]) <= 0

C16_InvalidInputRejectedEarly ==
  InvalidInput(lines_json) =>
    /\ ~TEMP
    /\ slices = <<>>
    /\ renders = <<>>
    /\ unify_calls = <<>>
    /\ fast_join = "none"
    /\ reenc_join = "none"
    /\ pc = "exited" => exit_code # ExitSuccess

\* C17: the cumulative timeline never decreases, whatever durations
\* lines.json holds.
C17_TimelineNonDecreasing ==
  Loaded =>
    \A i \in 1 .. (Len(cumulative) - 1) : cumulative[i] <= cumulative[i + 1]

\* C18: the run never gets stuck: as long as it has not ended it can take
\* its next step, also when an external tool does not come back.
C18_RunTerminates == pc = "exited" \/ ENABLED Next

\* C19: the exit code is 0 exactly when the run succeeded, and a failed
\* external process ends the run with a code other than the one a
\* validation failure (bad --size, missing input file) gives.
C19_DistinctExitCodes ==
  pc = "exited" =>
    /\ exit_code = ExitSuccess <=> error = "none"
    /\ error = "CalledProcessError" => exit_code # ExitCodeOf("SystemExit")

\* C20: in every clip build_video composes, after the font shrink and the
\* final upward shift, the bottom edge of every caption element, background
\* boxes included, is at or above SCREEN_H - BOTTOM_MARGIN (rows 1 and 2,
\* every measured text height).
C20_CaptionAboveBottomMargin ==
  \A j \in 1 .. Len(elem) : elem[j].y + elem[j].h <= SCREEN_H - BOTTOM_MARGIN

\* a two-row clip whose fonts were shrunk and that still had to be moved up
C20_Witness ==
  /\ Len(elem) = 4
  /\ fs_top < BaseFS(fsize_top, FONT_SIZE_TOP)
  /\ overflow2 > 0
  /\ elem[3].y + elem[3].h = SCREEN_H - BOTTOM_MARGIN - PAD_Y

\* C21: a clip whose caption block still overflows after the fit step was
\* laid out with every font size in use at the floor MIN_FONT_SIZE (the fit
\* does not stop while the block overflows and a size is above the floor).
C21_ShrinkUntilFitOrFloor ==
  (elem # <<>> /\ overflow2 > 0) =>
    /\ fs_top <= MIN_FONT_SIZE
    /\ ROWS >= 2 => fs_bot <= MIN_FONT_SIZE

\* C28: the font sizes a clip is laid out with after _fit_block_height are
\* never larger than the base sizes passed in.
C28_FitNeverEnlarges ==
  elem # <<>> =>
    /\ fs_top <= BaseFS(fsize_top, FONT_SIZE_TOP)
    /\ fs_bot <= BaseFS(fsize_bot, FONT_SIZE_BOT)

\* the upper text has been made / the lower text has been made
TopMade == cap_pc \in {"bottom", "fit", "composed"}
BotMade == bot_fonts # <<>>

LastEndsEllipsis(text) ==
  LET last == text[Len(text)]
  IN  last # <<>> /\ last[Len(last)] = "ELLIPSIS"

\* C22: the rendered upper text has at most MAX_TOP_LINES lines and the
\* rendered lower text at most MAX_BOT_LINES, and the last line of each ends
\* with an ellipsis exactly when textwrap gave that caption more lines than
\* the maximum.
C22_EllipsisIffCut ==
  /\ TopMade =>
       /\ Len(top_txt) <= MAX_TOP_LINES
       /\ LastEndsEllipsis(top_txt) <=> Len(top_wrap) > MAX_TOP_LINES
  /\ BotMade =>
       /\ Len(bot_body) <= MAX_BOT_LINES
       /\ LastEndsEllipsis(bot_body) <=> Len(bot_wrap) > MAX_BOT_LINES

HasPrefix(txt, spk) ==
  /\ Len(txt[1]) >= 2
  /\ txt[1][1] = spk
  /\ txt[1][2] = ": "

\* C23: the upper caption starts with "<speaker>: " for every speaker other
\* than "N" whatever hide_n_label is, and for "N" exactly when hide_n_label
\* is false.
C23_SpeakerLabel ==
  TopMade =>
    /\ speaker # "N" => HasPrefix(top_txt, speaker)
    /\ speaker = "N" => (HasPrefix(top_txt, speaker) <=> ~hide_n_label)

C23_Witness ==
  /\ TopMade
  /\ speaker = "Alice"
  /\ hide_n_label
  /\ HasPrefix(top_txt, "Alice")

\* the chain the first Hangul or CJK/kana character of the text selects
ChainOf(text) ==
  LET chars   == CharsOf(text)
      special == {i \in 1 .. Len(chars) : chars[i] \in {"HANGUL", "KANA"}}
      first   == CHOOSE i \in special : \A j \in special : i <= j
  IN  IF special = {} THEN <<FONT_LATN, FONT_JP, FONT_KO>>
      ELSE IF chars[first] = "HANGUL" THEN <<FONT_KO, FONT_JP, FONT_LATN>>
      ELSE <<FONT_JP, FONT_LATN>>

\* f is the first font of the chain that exists, FONT_LATN if none does
IsFirstExisting(f, chain, inst) ==
  \/ \E i \in 1 .. Len(chain) :
       /\ chain[i] = f
       /\ f \in inst
       /\ \A j \in 1 .. (i - 1) : chain[j] \notin inst
  \/ /\ \A i \in 1 .. Len(chain) : chain[i] \notin inst
     /\ f = FONT_LATN

\* C24: with the same font files installed, every call of pick_font on the
\* same text returns the same font, the first existing one of the chain the
\* first Hangul or CJK/kana character selects (Hangul: KO, JP, Latin;
\* CJK/kana: JP, Latin; neither: Latin, JP, KO), FONT_LATN if none exists.
C24_PickFontDeterministic ==
  /\ \A i \in 1 .. Len(top_fonts) :
       /\ top_fonts[i] = top_fonts[1]
       /\ IsFirstExisting(top_fonts[i], ChainOf(top_body), installed)
  /\ \A i \in 1 .. Len(bot_fonts) :
       /\ bot_fonts[i] = bot_fonts[1]
       /\ IsFirstExisting(bot_fonts[i], ChainOf(bot_body), installed)

\* pick_font was called twice on a text whose first special character is
\* kana and that also holds Hangul, with no Japanese font installed
C24_Witness ==
  /\ Len(top_fonts) = 2
  /\ top_body[1] = <<"KANA", "HANGUL">>
  /\ installed = {FONT_KO, FONT_LATN}
  /\ top_fonts[2] = FONT_LATN

\* C25: the durations _concat_with_gaps returns sum, in milliseconds, to
\* the length of the combined track, and utterance i begins in the track at
\* the sum of the durations before it plus pre_ms.
C25_DurationsMatchTrack ==
  gp_pc = "returned" =>
    /\ SumSeq(durs) = PyLen(combined)
    /\ \A i \in 1 .. Len(starts) :
         PyLen(starts[i]) = SumSeq(SubSeq(durs, 1, i - 1)) + pre_ms

\* C26: in every mode other than wisdom and fact the list make_dialogue
\* returns has the speakers Alice, Bob, Alice, Bob, ... starting with Alice,
\* whatever the model answered.
C26_SpeakersAlternate ==
  (dlg_pc = "returned" /\ mode \notin MONOLOGUE_MODES) =>
    \A i \in 1 .. Len(dlg_ret) :
      dlg_ret[i].spk = IF i % 2 = 1 THEN "Alice" ELSE "Bob"

\* the candidate passes every check: monolingual, non-empty, one sentence,
\* within the length limit, contains the word
PassesAll(c) == c.mono /\ c.nonempty /\ c.single /\ c.fits /\ c.contains

\* C27: _gen_example_sentence calls the model at most 6 times; it returns
\* the first candidate that passes all checks, and after 6 rejected ones the
\* fail-safe sentence of the language; what it returns is not empty, and
\* example_fallbacks is raised by one exactly when the fail-safe is used.
C27_ExampleSentence ==
  /\ Len(attempts) <= 6
  /\ example_attempts = Len(attempts)
  /\ \A i \in 1 .. (Len(attempts) - 1) : ~PassesAll(attempts[i])
  /\ gen_pc = "returned" =>
       /\ gen_ret.nonempty
       /\ \/ /\ gen_ret.kind = "candidate"
             /\ gen_ret.try = Len(attempts)
             /\ PassesAll(attempts[Len(attempts)])
             /\ example_fallbacks = 0
          \/ /\ gen_ret.kind = "failsafe"
             /\ gen_ret.lang = lang_code
             /\ Len(attempts) = 6
             /\ ~PassesAll(attempts[6])
             /\ example_fallbacks = 1
  /\ gen_pc # "returned" => example_fallbacks = 0

\* the fail-safe was used after a model error, a rejected answer without
\* the word and four more rejected answers
C27_Witness ==
  /\ gen_pc = "returned"
  /\ gen_ret.kind = "failsafe"
  /\ attempts[1].src = "error"
  /\ attempts[6] = Cand("reply", TRUE, TRUE, TRUE, TRUE, FALSE)

\* C29: the speaker tag of every record of lines.json is the speaker the
\* line was spoken with ("N" for intro, word and example lines, "Alice" or
\* "Bob" for conversation lines).
C29_TagIsTtsSpeaker ==
  r1_pc = "written" =>
    /\ Len(lines_data) = Len(speak_calls)
    /\ \A i \in 1 .. Len(lines_data) : lines_data[i] = speak_calls[i]

\* the accounts of a list, each once, in the order of first appearance
RECURSIVE DistinctInOrder(_)
DistinctInOrder(s) ==
  IF s = <<>> THEN <<>>
  ELSE LET front == DistinctInOrder(SubSeq(s, 1, Len(s) - 1))
           x     == s[Len(s)]
       IN  IF \E i \in 1 .. Len(front) : front[i] = x
           THEN front ELSE Append(front, x)

\* C30: the primary account is tried first, then each distinct fallback
\* account in the configured order, each at most once; the next account is
\* tried only after an upload-limit error; the first success returns True;
\* a token error or another error ends the call with no further account
\* tried; False is returned only when every tried account hit the limit.
C30_UploadFallbacks ==
  LET order == DistinctInOrder(<<account>> \o fallbacks)
  IN  /\ Len(tried) <= Len(order)
      /\ \A i \in 1 .. Len(tried) : i <= Len(order) => tried[i] = order[i]
      /\ \A i, j \in 1 .. Len(tried) : i # j => tried[i] # tried[j]
      /\ Len(up_errs) = Len(tried)
      /\ \A i \in 1 .. (Len(up_errs) - 1) : IsLimitError(up_errs[i])
      /\ up_errs # <<>> /\ up_errs[Len(up_errs)] = "ok" => up_ret = "True"
      /\ up_ret = "True" => up_errs[Len(up_errs)] = "ok"
      /\ (up_errs # <<>> /\ up_errs[Len(up_errs)] \in {"token", "other"}) =>
           up_ret \in {"SystemExit", "raise"}
      /\ up_ret = "False" =>
           /\ \A i \in 1 .. Len(up_errs) : IsLimitError(up_errs[i])
           /\ Len(tried) = Len(order)

====
